---- MODULE Spec2Model ----
(***************************************************************************)
(* fsck.krffs: the consistency checker of a KRFFS file system image.       *)
(* The model follows main() of src/fsck.krffs.c statement by statement.    *)
(* Addresses are offsets from the start of the mapping, in units of half   *)
(* a node record; the operating system (open, fstat, mmap, close, munmap)  *)
(* is the environment and answers each call nondeterministically.          *)
(***************************************************************************)
EXTENDS Integers, Sequences, FiniteSets, TLC

\* ------------------------------------------------------------ bounds
\* Largest file size, in address units.
MaxSize == 6
\* Largest number of command-line arguments after the program name.
MaxArgs == 2

\* --------------------------------------------------------- constants
EXIT_SUCCESS == 0
EXIT_FAILURE == 1
KRFFS_Invalid_Link_Error == -10
KRFFS_Out_of_Range_Node_Error == -11
KRFFS_Invalid_Magic_Signature_Error == -12
KRFFS_Unknown_Node_Type_Error == -13

\* sizeof(struct krffs_node), in address units.
NodeSize == 2
\* The signature every node carries, and one value that differs from it.
KRFFS_File_System_Magic == "KRFS"
BadMagic == "junk"
KRFFS_Root_Node == "Root"
KRFFS_Free_Node == "Free"
KRFFS_Reserved_Node == "Reserved"
UnknownType == "Other"

Magics == {KRFFS_File_System_Magic, BadMagic}
NodeTypes == {KRFFS_Root_Node, KRFFS_Free_Node, KRFFS_Reserved_Node, UnknownType}

\* ------------------------------------------------------------ inputs
\* Command-line arguments are strings, kept as tuples of characters.
ArgStrings ==
    { <<"-", "h">>, <<"-", "h", "x">>, <<"-", "x">>, <<"f">> }

ArgLists == UNION { [1..n -> ArgStrings] : n \in 0..MaxArgs }

\* The addresses at which a file of `size` units holds a whole node record.
Slots(size) == { a \in 0..size : a % NodeSize = 0 /\ a + NodeSize <= size }

\* The addresses a node's linkage can lead to: every record boundary from
\* the start of the mapping up to and including the first one that no
\* longer fits into the file (a record there lies partly or wholly past
\* the end). Linkages to addresses below the mapping or off a record
\* boundary are not among the inputs.
LinkTargets(size) == { a \in 0..size : a % NodeSize = 0 }

NodeValues(size) ==
    [magic : Magics, type : NodeTypes, next : LinkTargets(size)]

\* The contents a mapped file of `size` units can have.
Images(size) == [Slots(size) -> NodeValues(size)]

VARIABLES
    argv,            \* the arguments after argv[0]
    pc,              \* the position of main()
    exit_status,     \* the value main() returns
    file_descriptor, \* -1, or the descriptor open() returned
    file_info,       \* what fstat() stored
    fs_node,         \* file_system.node: "NULL", "MAP_FAILED" or "MAPPED"
    fs_size,         \* file_system.size
    image,           \* the contents of the mapping
    node,            \* the walk's cursor
    prev_node,
    os,              \* the kernel's view: descriptor open, region mapped
    calls,           \* how many times each OS operation was invoked
    failed,          \* the OS steps that reported a failure
    reads,           \* the addresses whose node fields were read
    visited          \* the cursors a walk step was run on

vars == <<argv, pc, exit_status, file_descriptor, file_info, fs_node, fs_size,
          image, node, prev_node, os, calls, failed, reads, visited>>

NoImage == <<>>
Fd == 3

Init ==
    /\ argv \in ArgLists
    /\ pc = "args"
    /\ exit_status = EXIT_SUCCESS
    /\ file_descriptor = -1
    /\ file_info = [reg |-> FALSE, size |-> 0]
    /\ fs_node = "NULL"
    /\ fs_size = 0
    /\ image = NoImage
    /\ node = 0
    /\ prev_node = 0
    /\ os = [fd_open |-> FALSE, mapped |-> FALSE]
    /\ calls = [open |-> 0, map |-> 0, close |-> 0, unmap |-> 0]
    /\ failed = {}
    /\ reads = {}
    /\ visited = {}

\* ------------------------------------------------- argument handling
\* A help test that compares the whole argument with "-h".
IsHelpArg_Exact(arg) == arg = <<"-", "h">>

\* strncmp(arg, "-h", 2) == 0
IsHelpArg(arg) == Len(arg) >= 2 /\ arg[1] = "-" /\ arg[2] = "h"

\* The scan of argv[1..argc-1] for a help option.
HasHelpOption(args) == \E i \in 1..Len(args) : IsHelpArg(args[i])

\* An option test that rejects only the argument "-".
FirstIsOption_OnlyDash(args) == args[1] = <<"-">>

\* argv[1][0] == '-'
FirstIsOption(args) == Len(args[1]) >= 1 /\ args[1][1] = "-"

Fail(tag) ==
    /\ exit_status' = EXIT_FAILURE
    /\ failed' = failed \cup {tag}
    /\ pc' = "cleanup"

ParseArgs ==
    /\ pc = "args"
    /\ IF Len(argv) = 0 \/ HasHelpOption(argv)
         THEN /\ pc' = "cleanup"
              /\ exit_status' = exit_status
         ELSE IF FirstIsOption(argv)
                THEN /\ pc' = "cleanup"
                     /\ exit_status' = EXIT_FAILURE
                ELSE /\ pc' = "open"
                     /\ exit_status' = exit_status
    /\ UNCHANGED <<argv, file_descriptor, file_info, fs_node, fs_size, image,
                   node, prev_node, os, calls, failed, reads, visited>>

\* ---------------------------------------------------- image loading
OpenFile ==
    /\ pc = "open"
    /\ calls' = [calls EXCEPT !.open = @ + 1]
    /\ \E ok \in BOOLEAN :
         IF ok
           THEN /\ file_descriptor' = Fd
                /\ os' = [os EXCEPT !.fd_open = TRUE]
                /\ pc' = "fstat"
                /\ UNCHANGED <<exit_status, failed>>
           ELSE /\ file_descriptor' = -1
                /\ os' = os
                /\ Fail("open")
    /\ UNCHANGED <<argv, file_info, fs_node, fs_size, image, node, prev_node,
                   reads, visited>>

GetFileInfo ==
    /\ pc = "fstat"
    /\ \E ok \in BOOLEAN :
         IF ok
           THEN /\ \E reg \in BOOLEAN, size \in 0..MaxSize :
                     file_info' = [reg |-> reg, size |-> size]
                /\ pc' = "isreg"
                /\ UNCHANGED <<exit_status, failed>>
           ELSE /\ file_info' = file_info
                /\ Fail("fstat")
    /\ UNCHANGED <<argv, file_descriptor, fs_node, fs_size, image, node,
                   prev_node, os, calls, reads, visited>>

CheckRegular ==
    /\ pc = "isreg"
    /\ IF ~file_info.reg
         THEN Fail("notreg")
         ELSE /\ pc' = "size"
              /\ UNCHANGED <<exit_status, failed>>
    /\ UNCHANGED <<argv, file_descriptor, file_info, fs_node, fs_size, image,
                   node, prev_node, os, calls, reads, visited>>

\* A size check that asks for room for one node record only.
TooSmall_OneRecord(size) == size < NodeSize

\* st_size < sizeof(*file_system.node) * 2
TooSmall(size) == size < NodeSize * 2

CheckSize ==
    /\ pc = "size"
    /\ IF TooSmall(file_info.size)
         THEN /\ Fail("small")
              /\ fs_size' = fs_size
         ELSE /\ fs_size' = file_info.size
              /\ pc' = "map"
              /\ UNCHANGED <<exit_status, failed>>
    /\ UNCHANGED <<argv, file_descriptor, file_info, fs_node, image, node,
                   prev_node, os, calls, reads, visited>>

MapFile ==
    /\ pc = "map"
    /\ calls' = [calls EXCEPT !.map = @ + 1]
    /\ \E ok \in BOOLEAN :
         IF ok
           THEN /\ fs_node' = "MAPPED"
                /\ os' = [os EXCEPT !.mapped = TRUE]
                /\ image' \in Images(fs_size)
                /\ pc' = "close"
                /\ UNCHANGED <<exit_status, failed>>
           ELSE /\ fs_node' = "MAP_FAILED"
                /\ os' = os
                /\ image' = image
                /\ Fail("map")
    /\ UNCHANGED <<argv, file_descriptor, file_info, fs_size, node, prev_node,
                   reads, visited>>

\* What close(fd) can do to the kernel's descriptor: a successful call
\* releases it; a failing call on an open descriptor may or may not have
\* released it; a call on a descriptor that is not open fails.
CloseResults ==
    IF os.fd_open
      THEN { [ok |-> TRUE, open |-> FALSE],
             [ok |-> FALSE, open |-> TRUE],
             [ok |-> FALSE, open |-> FALSE] }
      ELSE { [ok |-> FALSE, open |-> FALSE] }

CloseAfterMap ==
    /\ pc = "close"
    /\ calls' = [calls EXCEPT !.close = @ + 1]
    /\ \E r \in CloseResults :
         /\ os' = [os EXCEPT !.fd_open = r.open]
         /\ IF r.ok
              THEN /\ file_descriptor' = -1
                   /\ pc' = "magic"
                   /\ UNCHANGED <<exit_status, failed>>
              ELSE /\ file_descriptor' = file_descriptor
                   /\ Fail("close")
    /\ UNCHANGED <<argv, file_info, fs_node, fs_size, image, node, prev_node,
                   reads, visited>>

\* -------------------------------------------------- header validation
Root == 0

\* A read of the node at address a. Inside the mapping it yields the node
\* stored there; outside it the read is undefined and may yield anything.
Load(img, size, a) ==
    IF a \in DOMAIN img THEN {img[a]} ELSE NodeValues(size)

CheckMagic ==
    /\ pc = "magic"
    /\ reads' = reads \cup {Root}
    /\ \E n \in Load(image, fs_size, Root) :
         IF n.magic # KRFFS_File_System_Magic
           THEN /\ exit_status' = EXIT_FAILURE
                /\ pc' = "cleanup"
           ELSE /\ exit_status' = exit_status
                /\ pc' = "root"
    /\ UNCHANGED <<argv, file_descriptor, file_info, fs_node, fs_size, image,
                   node, prev_node, os, calls, failed, visited>>

\* The condition under which the header is rejected for its type.
RootRejected(n) == n.type = KRFFS_Root_Node

CheckRoot ==
    /\ pc = "root"
    /\ reads' = reads \cup {Root}
    /\ \E n \in Load(image, fs_size, Root) :
         IF RootRejected(n)
           THEN /\ exit_status' = EXIT_FAILURE
                /\ pc' = "cleanup"
                /\ UNCHANGED <<node, prev_node>>
           ELSE /\ exit_status' = exit_status
                /\ node' = Root
                /\ prev_node' = Root
                /\ pc' = "walk"
    /\ UNCHANGED <<argv, file_descriptor, file_info, fs_node, fs_size, image,
                   os, calls, failed, visited>>

\* -------------------------------------------------------- chain walk
\* True iff a whole node record at address a lies inside the image.
krffs_is_node_in_file_system(size, a) == a >= Root /\ a + NodeSize <= size

\* The address the linkage of node record n leads to.
krffs_get_next_node(n) == n.next

\* The loop's checks without the check of the node type.
CheckNode_NoTypeCheck(size, prev, cur, n) ==
    IF prev > cur
      THEN [code |-> KRFFS_Invalid_Link_Error, read |-> FALSE]
    ELSE IF ~krffs_is_node_in_file_system(size, cur)
      THEN [code |-> KRFFS_Out_of_Range_Node_Error, read |-> FALSE]
    ELSE IF n.magic # KRFFS_File_System_Magic
      THEN [code |-> KRFFS_Invalid_Magic_Signature_Error, read |-> TRUE]
    ELSE [code |-> 0, read |-> TRUE]

\* The loop's checks with the signature examined before the ordering.
CheckNode_SignatureFirst(size, prev, cur, n) ==
    IF n.magic # KRFFS_File_System_Magic
      THEN [code |-> KRFFS_Invalid_Magic_Signature_Error, read |-> TRUE]
    ELSE IF prev > cur
      THEN [code |-> KRFFS_Invalid_Link_Error, read |-> FALSE]
    ELSE IF ~krffs_is_node_in_file_system(size, cur)
      THEN [code |-> KRFFS_Out_of_Range_Node_Error, read |-> FALSE]
    ELSE IF n.type # KRFFS_Free_Node /\ n.type # KRFFS_Reserved_Node
      THEN [code |-> KRFFS_Unknown_Node_Type_Error, read |-> TRUE]
    ELSE [code |-> 0, read |-> TRUE]

\* The loop's checks without the check of the signature.
CheckNode_NoMagicCheck(size, prev, cur, n) ==
    IF prev > cur
      THEN [code |-> KRFFS_Invalid_Link_Error, read |-> FALSE]
    ELSE IF ~krffs_is_node_in_file_system(size, cur)
      THEN [code |-> KRFFS_Out_of_Range_Node_Error, read |-> FALSE]
    ELSE IF n.type # KRFFS_Free_Node /\ n.type # KRFFS_Reserved_Node
      THEN [code |-> KRFFS_Unknown_Node_Type_Error, read |-> TRUE]
    ELSE [code |-> 0, read |-> TRUE]

\* The loop's checks without the bounds check.
CheckNode_NoBoundsCheck(size, prev, cur, n) ==
    IF prev > cur
      THEN [code |-> KRFFS_Invalid_Link_Error, read |-> FALSE]
    ELSE IF n.magic # KRFFS_File_System_Magic
      THEN [code |-> KRFFS_Invalid_Magic_Signature_Error, read |-> TRUE]
    ELSE IF n.type # KRFFS_Free_Node /\ n.type # KRFFS_Reserved_Node
      THEN [code |-> KRFFS_Unknown_Node_Type_Error, read |-> TRUE]
    ELSE [code |-> 0, read |-> TRUE]

\* The loop's checks without the ordering check.
CheckNode_NoOrderCheck(size, prev, cur, n) ==
    IF ~krffs_is_node_in_file_system(size, cur)
      THEN [code |-> KRFFS_Out_of_Range_Node_Error, read |-> FALSE]
    ELSE IF n.magic # KRFFS_File_System_Magic
      THEN [code |-> KRFFS_Invalid_Magic_Signature_Error, read |-> TRUE]
    ELSE IF n.type # KRFFS_Free_Node /\ n.type # KRFFS_Reserved_Node
      THEN [code |-> KRFFS_Unknown_Node_Type_Error, read |-> TRUE]
    ELSE [code |-> 0, read |-> TRUE]

\* The loop's checks with an ordering check that demands a strict advance.
CheckNode_StrictOrder(size, prev, cur, n) ==
    IF prev >= cur
      THEN [code |-> KRFFS_Invalid_Link_Error, read |-> FALSE]
    ELSE IF ~krffs_is_node_in_file_system(size, cur)
      THEN [code |-> KRFFS_Out_of_Range_Node_Error, read |-> FALSE]
    ELSE IF n.magic # KRFFS_File_System_Magic
      THEN [code |-> KRFFS_Invalid_Magic_Signature_Error, read |-> TRUE]
    ELSE IF n.type # KRFFS_Free_Node /\ n.type # KRFFS_Reserved_Node
      THEN [code |-> KRFFS_Unknown_Node_Type_Error, read |-> TRUE]
    ELSE [code |-> 0, read |-> TRUE]

\* The loop's checks reporting an unknown node type as a plain failure.
CheckNode_TypeAsFailure(size, prev, cur, n) ==
    IF prev > cur
      THEN [code |-> KRFFS_Invalid_Link_Error, read |-> FALSE]
    ELSE IF ~krffs_is_node_in_file_system(size, cur)
      THEN [code |-> KRFFS_Out_of_Range_Node_Error, read |-> FALSE]
    ELSE IF n.magic # KRFFS_File_System_Magic
      THEN [code |-> KRFFS_Invalid_Magic_Signature_Error, read |-> TRUE]
    ELSE IF n.type # KRFFS_Free_Node /\ n.type # KRFFS_Reserved_Node
      THEN [code |-> EXIT_FAILURE, read |-> TRUE]
    ELSE [code |-> 0, read |-> TRUE]

\* The checks of one loop iteration on cursor cur, whose record (when it
\* is read) is n: the status to exit with, 0 when all pass, and whether
\* the node's fields were read. The comparison prev_node > node compares
\* the two pointers as addresses.
CheckNode(size, prev, cur, n) ==
    IF prev > cur
      THEN [code |-> KRFFS_Invalid_Link_Error, read |-> FALSE]
    ELSE IF ~krffs_is_node_in_file_system(size, cur)
      THEN [code |-> KRFFS_Out_of_Range_Node_Error, read |-> FALSE]
    ELSE IF n.magic # KRFFS_File_System_Magic
      THEN [code |-> KRFFS_Invalid_Magic_Signature_Error, read |-> TRUE]
    ELSE IF n.type # KRFFS_Free_Node /\ n.type # KRFFS_Reserved_Node
      THEN [code |-> KRFFS_Unknown_Node_Type_Error, read |-> TRUE]
    ELSE [code |-> 0, read |-> TRUE]

\* A walk step that also marks the node it accepted as reserved.
WalkStep_MarksNode ==
    /\ pc = "walk"
    /\ visited' = visited \cup {node}
    /\ \E n \in Load(image, fs_size, node) :
         LET r == CheckNode(fs_size, prev_node, node, n) IN
         /\ reads' = IF r.read THEN reads \cup {node} ELSE reads
         /\ IF r.code # 0
              THEN /\ exit_status' = r.code
                   /\ pc' = "cleanup"
                   /\ UNCHANGED <<node, prev_node, image>>
              ELSE /\ exit_status' = exit_status
                   /\ image' = [image EXCEPT ![node].type = KRFFS_Reserved_Node]
                   /\ prev_node' = node
                   /\ node' = krffs_get_next_node(n)
                   /\ pc' = IF node' = Root THEN "cleanup" ELSE "walk"
    /\ UNCHANGED <<argv, file_descriptor, file_info, fs_node, fs_size,
                   os, calls, failed>>

WalkStep ==
    /\ pc = "walk"
    /\ visited' = visited \cup {node}
    /\ \E n \in Load(image, fs_size, node) :
         LET r == CheckNode(fs_size, prev_node, node, n) IN
         /\ reads' = IF r.read THEN reads \cup {node} ELSE reads
         /\ IF r.code # 0
              THEN /\ exit_status' = r.code
                   /\ pc' = "cleanup"
                   /\ UNCHANGED <<node, prev_node>>
              ELSE /\ exit_status' = exit_status
                   /\ prev_node' = node
                   /\ node' = krffs_get_next_node(n)
                   /\ pc' = IF node' = Root THEN "cleanup" ELSE "walk"
    /\ UNCHANGED <<argv, file_descriptor, file_info, fs_node, fs_size, image,
                   os, calls, failed>>

\* ----------------------------------------------------------- teardown
\* What unmapping can do: a mapped region is unmapped, or the call fails
\* and leaves it; a call on an address that is no mapping fails.
UnmapResults ==
    IF os.mapped
      THEN { [ok |-> TRUE, mapped |-> FALSE], [ok |-> FALSE, mapped |-> TRUE] }
      ELSE { [ok |-> FALSE, mapped |-> FALSE] }

\* file_descriptor != -1
NeedsClose == file_descriptor # -1

\* Teardown that unmaps only after a successful check.
NeedsUnmap_OnlyOnSuccess == fs_node # "NULL" /\ exit_status = EXIT_SUCCESS

\* file_system.node != NULL
NeedsUnmap == fs_node # "NULL"

Cleanup ==
    /\ pc = "cleanup"
    /\ \E c \in IF NeedsClose
                  THEN {[called |-> TRUE, ok |-> r.ok, open |-> r.open] :
                            r \in CloseResults}
                  ELSE {[called |-> FALSE, ok |-> TRUE, open |-> os.fd_open]},
          u \in IF NeedsUnmap
                  THEN {[called |-> TRUE, ok |-> r.ok, mapped |-> r.mapped] :
                            r \in UnmapResults}
                  ELSE {[called |-> FALSE, ok |-> TRUE, mapped |-> os.mapped]} :
         /\ os' = [fd_open |-> c.open, mapped |-> u.mapped]
         /\ calls' = [calls EXCEPT
                        !.close = IF c.called THEN @ + 1 ELSE @,
                        !.unmap = IF u.called THEN @ + 1 ELSE @]
         /\ failed' = failed \cup (IF c.ok THEN {} ELSE {"cleanup_close"})
                             \cup (IF u.ok THEN {}
                                   ELSE IF os.mapped THEN {"unmap"}
                                   ELSE {"unmap_nomap"})
    /\ pc' = "done"
    /\ UNCHANGED <<argv, exit_status, file_descriptor, file_info, fs_node,
                   fs_size, image, node, prev_node, reads, visited>>

Next ==
    \/ ParseArgs
    \/ OpenFile
    \/ GetFileInfo
    \/ CheckRegular
    \/ CheckSize
    \/ MapFile
    \/ CloseAfterMap
    \/ CheckMagic
    \/ CheckRoot
    \/ WalkStep
    \/ Cleanup

Spec == Init /\ [][Next]_vars

\* Runs of the checker on a file: the only argument is a path.
InitFile == Init /\ argv = << <<"f">> >>

\* The process runs on its own: a step that can be taken is taken.
SpecFair == InitFile /\ [][Next]_vars /\ WF_vars(Next)

\* =================================================================
\* Properties
\* =================================================================
Done == pc = "done"

\* A run that was given a file path: it is neither the usage path nor the
\* invalid-first-argument path.
PathRun ==
    /\ argv # <<>>
    /\ \A i \in 1..Len(argv) : ~(argv[i][1] = "-" /\ argv[i][2] = "h")
    /\ argv[1][1] # "-"

\* The run got a mapping and no OS step failed.
CleanRun == Done /\ PathRun /\ fs_node = "MAPPED" /\ failed = {}

GoodMagic(img, a) == img[a].magic = KRFFS_File_System_Magic
ChainType(img, a) == img[a].type \in {KRFFS_Free_Node, KRFFS_Reserved_Node}

\* The nodes of the chain in visiting order: the root, then the target of
\* each linkage, until a linkage leads back to the root or out of the
\* image (or `fuel` links were followed).
RECURSIVE Follow(_, _, _, _)
Follow(img, cur, seq, fuel) ==
    LET s == Append(seq, cur) IN
    IF cur \notin DOMAIN img \/ fuel = 0 \/ img[cur].next = Root
      THEN s
      ELSE Follow(img, img[cur].next, s, fuel - 1)

Path(img) == Follow(img, Root, <<>>, Cardinality(DOMAIN img) + 1)

\* The path ends with a linkage that leads back to the root.
Closes(img) ==
    LET p == Path(img) IN
    /\ p[Len(p)] \in DOMAIN img
    /\ img[p[Len(p)]].next = Root

\* The per-node checks, numbered in the documented order, that the i-th
\* node of path p violates: 1 ordering, 2 bounds, 3 signature, 4 type.
Violated(img, size, p, i) ==
    LET cur == p[i]
        prev == IF i = 1 THEN Root ELSE p[i - 1]
    IN  { k \in 1..4 :
            \/ k = 1 /\ cur < prev
            \/ k = 2 /\ cur \notin Slots(size)
            \/ k = 3 /\ cur \in Slots(size) /\ ~GoodMagic(img, cur)
            \/ k = 4 /\ cur \in Slots(size) /\ ~ChainType(img, cur) }

Least(S) == CHOOSE k \in S : \A j \in S : k <= j

\* The exit status documented for check k.
KindCode(k) == 0 - 9 - k

\* The positions of the path, from position `from` on, that violate a check.
BadFrom(img, size, from) ==
    { i \in from..Len(Path(img)) : Violated(img, size, Path(img), i) # {} }

\* An image as the file-system format intends it: a root node with a valid
\* signature and type Root, followed by a chain of nodes that pass every
\* check and whose last linkage leads back to the root.
ValidImage(img, size) ==
    /\ GoodMagic(img, Root)
    /\ img[Root].type = KRFFS_Root_Node
    /\ Len(Path(img)) >= 2
    /\ BadFrom(img, size, 2) = {}
    /\ Closes(img)

\* C1: a run on an image whose root has the right signature and type Root
\* and whose chain passes every check and returns to the root ends with
\* exit status 0.
C1_ValidChainExitsZero ==
    (CleanRun /\ ValidImage(image, fs_size)) => exit_status = 0

\* C2: a run that was given a file path and ends with status 0 has visited
\* only nodes lying inside the image, each with the expected signature,
\* each but the root of type Free or Reserved, and its last linkage led
\* back to the root.
C2_ExitZeroSound ==
    (Done /\ PathRun /\ exit_status = 0) =>
        /\ Root \in visited
        /\ \A a \in visited :
             /\ a >= 0 /\ a + NodeSize <= fs_size
             /\ GoodMagic(image, a)
             /\ a # Root => ChainType(image, a)
        /\ node = Root
        /\ image[prev_node].next = Root

C2_Witness ==
    /\ Done /\ PathRun /\ exit_status = 0
    /\ Cardinality(visited) >= 3

\* C3: on an image whose root has a valid signature and type Root and whose
\* chain has a single corrupted position, the run ends with the status of
\* that corruption: -12 for a bad signature, -11 for a linkage past the end
\* of the image, -10 for a linkage back to an earlier node, -13 for a type
\* other than Free or Reserved.
C3_SingleCorruptionCodes ==
    (/\ CleanRun
     /\ GoodMagic(image, Root)
     /\ image[Root].type = KRFFS_Root_Node
     /\ Cardinality(BadFrom(image, fs_size, 2)) = 1) =>
        LET i == Least(BadFrom(image, fs_size, 2)) IN
        /\ Cardinality(Violated(image, fs_size, Path(image), i)) = 1
             => exit_status =
                  KindCode(Least(Violated(image, fs_size, Path(image), i)))

C5_FirstViolationWins ==
    (Done /\ visited # {} /\ BadFrom(image, fs_size, 1) # {}) =>
        LET p == Path(image)
            i == Least(BadFrom(image, fs_size, 1))
        IN  /\ exit_status = KindCode(Least(Violated(image, fs_size, p, i)))
            /\ visited = { p[j] : j \in 1..i }

C5_Witness ==
    /\ Done
    /\ visited # {}
    /\ \E i, j \in BadFrom(image, fs_size, 1) :
         /\ i < j
         /\ Least(Violated(image, fs_size, Path(image), i))
              # Least(Violated(image, fs_size, Path(image), j))
         /\ Path(image)[j] \notin visited

\* C6: on a mapped image whose first node has a valid signature, the header
\* is rejected (exit status 1, no walk step) exactly when that node's type
\* is not Root.
C6_RootCheckPolarity ==
    (CleanRun /\ GoodMagic(image, Root)) =>
        ((exit_status = EXIT_FAILURE /\ visited = {})
            <=> image[Root].type # KRFFS_Root_Node)

\* C7: a run in which any OS-level step failed ends with exit status 1.
C7_EnvErrorsExitOne ==
    (Done /\ failed # {}) => exit_status = EXIT_FAILURE

\* C8: when the run returns and no teardown call on an open descriptor or
\* a mapped region failed, the descriptor is closed and the region is
\* unmapped, whichever branch ended the run.
C8_NoLeak ==
    (Done /\ failed \cap {"cleanup_close", "unmap"} = {}) =>
        ~os.fd_open /\ ~os.mapped

C8_Witness ==
    /\ Done
    /\ failed \cap {"cleanup_close", "unmap"} = {}
    /\ exit_status \in {KRFFS_Invalid_Link_Error, KRFFS_Out_of_Range_Node_Error}
    /\ calls.unmap = 1

\* C9: each of open, map, close and unmap is invoked at most once, and a
\* run whose map succeeded invokes close exactly once and unmap exactly
\* once.
C9_OsOpsOnce ==
    /\ \A op \in DOMAIN calls : calls[op] <= 1
    /\ (Done /\ fs_node = "MAPPED") => calls.close = 1 /\ calls.unmap = 1

\* C10: a regular file smaller than two node records is never mapped, none
\* of its node fields is read, the walk is never entered, and the run ends
\* with exit status 1.
C10_MinimumSize ==
    (file_info.reg /\ file_info.size < 2 * NodeSize) =>
        /\ calls.map = 0
        /\ fs_node = "NULL"
        /\ reads = {}
        /\ visited = {}
        /\ pc \in {"isreg", "size", "cleanup", "done"}
        /\ Done => exit_status = EXIT_FAILURE

C10_Witness ==
    /\ Done
    /\ file_info.reg
    /\ file_info.size = 2 * NodeSize - 1

\* The status a run on the given arguments, OS outcomes and image ends
\* with, computed from those inputs alone.
ExpectedExit ==
    IF argv = <<>> \/ \E i \in 1..Len(argv) : argv[i][1] = "-" /\ argv[i][2] = "h"
      THEN 0
    ELSE IF argv[1][1] = "-" THEN 1
    ELSE IF failed \cap {"open", "fstat", "notreg", "small", "map", "close"} # {}
      THEN 1
    ELSE IF ~GoodMagic(image, Root) THEN 1
    ELSE IF image[Root].type = KRFFS_Root_Node THEN 1
    ELSE IF BadFrom(image, fs_size, 1) # {}
      THEN KindCode(Least(Violated(image, fs_size, Path(image),
                                   Least(BadFrom(image, fs_size, 1)))))
    ELSE 0

\* C11: no step changes the image once it is mapped, and the status a run
\* ends with is determined by its arguments, the OS outcomes and the image,
\* so a second run on the same inputs ends with the same status.
C11_ReadOnlyIdempotent ==
    /\ [][image # NoImage => image' = image]_vars
    /\ [](Done => exit_status = ExpectedExit)

C11_Witness ==
    /\ Done
    /\ image # NoImage
    /\ Cardinality(visited) >= 2
    /\ exit_status = KRFFS_Unknown_Node_Type_Error

StructuralCodes ==
    { KRFFS_Invalid_Link_Error, KRFFS_Out_of_Range_Node_Error,
      KRFFS_Invalid_Magic_Signature_Error, KRFFS_Unknown_Node_Type_Error }

\* C12: a status in -10..-13 arises only inside the chain walk, after the
\* file was opened, found regular and large enough, mapped, its descriptor
\* closed and its header accepted; once the walk has started the status
\* is 0 or one of -10..-13 and never 1; every status is one of
\* 0, 1, -10, -11, -12, -13.
C12_TiersDisjoint ==
    /\ exit_status \in {0, 1} \cup StructuralCodes
    /\ exit_status \in StructuralCodes =>
         /\ calls.open = 1 /\ calls.map = 1
         /\ file_info.reg /\ file_info.size >= 2 * NodeSize
         /\ fs_node = "MAPPED"
         /\ file_descriptor = -1 /\ "close" \notin failed
         /\ GoodMagic(image, Root)
         /\ visited # {}
         /\ pc \in {"cleanup", "done"}
    /\ (pc = "walk" \/ visited # {}) =>
         exit_status \in {0} \cup StructuralCodes

C12_Witness ==
    /\ Done
    /\ exit_status = KRFFS_Out_of_Range_Node_Error
    /\ failed = {}

\* The argument begins with the two characters "-h".
BeginsDashH(arg) == Len(arg) >= 2 /\ arg[1] = "-" /\ arg[2] = "h"

\* The first argument begins with '-' but not with "-h".
FirstInvalid ==
    /\ argv # <<>>
    /\ Len(argv[1]) >= 1 /\ argv[1][1] = "-"
    /\ ~BeginsDashH(argv[1])

NothingOpened ==
    /\ calls = [open |-> 0, map |-> 0, close |-> 0, unmap |-> 0]
    /\ fs_node = "NULL"
    /\ reads = {} /\ visited = {}

\* C13 as stated: a first argument that begins with '-' but not with "-h"
\* is rejected with exit status 1 and no file is opened, whatever the
\* further arguments are.
C13_InvalidFirstArgAlways ==
    (Done /\ FirstInvalid) => exit_status = EXIT_FAILURE /\ NothingOpened

\* C13 as amended: such a first argument is rejected with exit status 1
\* when no further argument begins with "-h"; when one does, the run takes
\* the usage path and ends with status 0; in both cases no file is opened.
C13_InvalidFirstArg ==
    FirstInvalid =>
        /\ NothingOpened
        /\ pc \in {"args", "cleanup", "done"}
        /\ pc # "args" =>
             exit_status = IF \E i \in 2..Len(argv) : BeginsDashH(argv[i])
                             THEN EXIT_SUCCESS ELSE EXIT_FAILURE

C13_Witness ==
    /\ Done
    /\ FirstInvalid
    /\ Len(argv) >= 2
    /\ exit_status = EXIT_FAILURE

\* C14: when the first argument begins with "-h" the run ends with exit
\* status 0 whatever the further arguments are, and opens, maps and checks
\* no file.
C14_HelpShortcut ==
    (argv # <<>> /\ BeginsDashH(argv[1])) =>
        /\ NothingOpened
        /\ exit_status = EXIT_SUCCESS
        /\ pc \in {"args", "cleanup", "done"}

C14_Witness ==
    /\ Done
    /\ Len(argv) >= 2
    /\ argv[1] = <<"-", "h", "x">>
    /\ ~BeginsDashH(argv[2])

\* C15: a mapped image whose first node's signature differs from the
\* expected constant is rejected before any walk step with the status of
\* InvalidMagicSignature, -12.
C15_HeaderSignatureCode ==
    (CleanRun /\ ~GoodMagic(image, Root)) =>
        /\ exit_status = KRFFS_Invalid_Magic_Signature_Error
        /\ visited = {}

\* Some linkage of the chain skips at least one node record.
HasGap(img) ==
    \E i \in 1..(Len(Path(img)) - 1) : Path(img)[i + 1] - Path(img)[i] > NodeSize

\* C16: a walk that ended with a violation ended with InvalidLink exactly
\* when the cursor is strictly below the previous node, and an otherwise
\* valid chain whose linkages leave gaps between its nodes is accepted
\* with exit status 0.
C16_GapsAccepted ==
    /\ (pc \in {"cleanup", "done"} /\ visited # {} /\ exit_status # 0) =>
         (exit_status = KRFFS_Invalid_Link_Error <=> node < prev_node)
    /\ (CleanRun /\ ValidImage(image, fs_size) /\ HasGap(image)) =>
         exit_status = 0

\* The ordering part of C16 on its own, for every walk step: the step
\* reports InvalidLink exactly when the cursor is strictly below the
\* previous node, so a linkage that advances by zero or leaves a gap passes.
OrderingIsNonDecreasing ==
    [][pc = "walk" =>
         (exit_status' = KRFFS_Invalid_Link_Error <=> node < prev_node)]_vars

\* Every node of the path lies in the image and has a valid signature and
\* a type of Free or Reserved.
AllGood(img) ==
    \A i \in 1..Len(Path(img)) :
        /\ Path(img)[i] \in DOMAIN img
        /\ GoodMagic(img, Path(img)[i])
        /\ ChainType(img, Path(img)[i])

\* The chain comes back to a node other than the root.
EntersSubCycle(img) ==
    \E i, j \in 1..Len(Path(img)) : i < j /\ Path(img)[i] = Path(img)[j]

\* The chain reaches, through positions that pass every check, a node
\* other than the root whose linkage leads to that node itself.
ReachesSelfLink(img, size) ==
    \E i \in 1..Len(Path(img)) :
        /\ Path(img)[i] # Root
        /\ Path(img)[i] \in DOMAIN img
        /\ img[Path(img)[i]].next = Path(img)[i]
        /\ \A k \in 1..i : Violated(img, size, Path(img), k) = {}

\* C17 as stated: a chain of sound nodes that enters a sub-cycle excluding
\* the root keeps the walk going for ever: the run never leaves the loop.
C17_SubCycleLoopsForever ==
    (visited # {} /\ AllGood(image) /\ EntersSubCycle(image)) => pc = "walk"

\* C17 as amended: the walk has no step bound and ends only on closure or
\* on a failed check; it never ends on a chain that reaches a sound node
\* other than the root whose linkage leads to itself, while a sub-cycle of
\* two or more sound nodes ends the run with InvalidLink.
C17_SelfLinkLoopsForever ==
    /\ (visited # {} /\ ReachesSelfLink(image, fs_size)) => pc = "walk"
    /\ (pc \in {"cleanup", "done"} /\ visited # {}) =>
         \/ exit_status \in StructuralCodes
         \/ exit_status = 0 /\ node = Root
    /\ (visited # {} /\ AllGood(image) /\ EntersSubCycle(image)
          /\ ~ReachesSelfLink(image, fs_size) /\ Done) =>
         exit_status = KRFFS_Invalid_Link_Error

C17_Witness ==
    /\ pc = "walk"
    /\ node # Root
    /\ node = prev_node
    /\ node \in visited

C19_ReadsInsideMapping ==
    /\ reads # {} => fs_node = "MAPPED"
    /\ \A a \in reads : Root <= a /\ a + NodeSize <= fs_size
    /\ pc \in {"magic", "root", "walk"} =>
         os.mapped /\ Root + NodeSize <= fs_size

C19_Witness ==
    /\ pc = "cleanup"
    /\ exit_status = KRFFS_Out_of_Range_Node_Error
    /\ node \notin reads
    /\ Cardinality(reads) >= 2

\* C20: unmap is invoked only on a region that the run's map call
\* returned successfully; when the map call fails, teardown closes the
\* descriptor and does not invoke unmap.
C20_UnmapOnlyMapped ==
    /\ calls.unmap > 0 => fs_node = "MAPPED" /\ "map" \notin failed
    /\ (Done /\ "map" \in failed) => calls.close = 1 /\ calls.unmap = 0

====
